---- MODULE Spec2Model ----
(***************************************************************************)
(* salvo-captcha: the captcha middleware (Captcha::handle), its storage    *)
(* backends (MemoryStorage, CacacheStorage) and the cleaner task spawned   *)
(* by Captcha::new.                                                        *)
(*                                                                         *)
(* Strings are sequences of UTF-8 bytes.  Tokens (uuid v4 strings) are the *)
(* numbers 1..MaxTokens, the n-th store_answer call drawing the n-th uuid. *)
(* Time is counted in ticks, TicksPerSec ticks to the second; the clock    *)
(* starts one second after the epoch.  The persistent backend's I/O may    *)
(* fail at every call; a failed call leaves the cache as it was.           *)
(***************************************************************************)
EXTENDS Integers, Sequences, FiniteSets, TLC

\* ------------------------------------------------------------------ bounds
MaxTokens == 1
MaxTicks == 1
TicksPerSec == 2
TimeBits == 4

\* ------------------------------------------------------------------ inputs
Handlers == {"h1", "h2"}
Backends == {"memory", "cacache"}

Hello == <<72, 101, 108, 108, 111>>
hello == <<104, 101, 108, 108, 111>>
HELLO == <<72, 69, 76, 76, 79>>
\* "É" (U+00C9) and "é" (U+00E9) in UTF-8
Eacute == <<195, 137>>
eacute == <<195, 169>>

StoredAnswers == {Hello, Eacute}
SubmittedAnswers == {Hello, hello, HELLO, Eacute, eacute}
\* the answer submitted while several requests and the cleaner run together:
\* right for a token that holds Hello, wrong for one that holds Eacute
RacingAnswers == {Hello}

TokenIds == 1..MaxTokens

StartClock == TicksPerSec
ExpiredAfterChoices == {0, 2 * TicksPerSec}
CleanIntervalChoices == {1}

\* the storage driven on its own: up to MaxIssued captchas, over StorageTicks
\* ticks, with a maximal age of zero, of half a second, of one and of two seconds
MaxIssued == 2
MaxCalls == 3
StorageTicks == 3
\* the ticks counted while the cleaner task is followed to the end: enough for
\* a record to outlive the longest maximal age
LiveTicks == 5
StorageAges == {0, 1, TicksPerSec, 2 * TicksPerSec}

\* bytes that are not UTF-8
NotText == <<255>>

\* a field of the request (header, form field or query parameter) under the
\* finder's key: not sent, sent with a value that is no valid string, or sent
\* with a readable value
NoField == [h |-> "missing"]
BadField == [h |-> "opaque"]
Field(v) == [h |-> "text", v |-> v]

TokenFields == {NoField, BadField} \cup {Field(t) : t \in TokenIds}
AnswerFields == {NoField, BadField} \cup {Field(a) : a \in SubmittedAnswers}
Requests == [skip : BOOLEAN, token : TokenFields, answer : AnswerFields]
\* requests that carry both values and are not skipped
WellFormedRequests ==
    [skip : {FALSE}, token : {Field(t) : t \in TokenIds},
     answer : {Field(a) : a \in RacingAnswers}]

NoRequest == [skip |-> FALSE, token |-> NoField, answer |-> NoField]

\* ------------------------------------------------------------------- state
VARIABLES
    backend,                 \* which CaptchaStorage the Captcha was built with
    case_sensitive,          \* Captcha.case_sensitive
    captcha_expired_after,   \* ticks, moved into the cleaner task
    clean_interval,          \* ticks, moved into the cleaner task
    storage,                 \* token -> [time, answer]: the map / the cache index
    next_token,              \* the next uuid to be drawn
    clock,                   \* SystemTime::now() in ticks since the epoch
    hpc,                     \* handler -> position in Captcha::handle
    req,                     \* handler -> the request being handled
    depot,                   \* handler -> depot[CAPTCHA_STATE_KEY] of that request
    lookup,                  \* handler -> what storage.get_answer returned
    calls,                   \* handler -> collaborator calls made by this handle call
    spc,                     \* position of the cleaner task
    sthreshold,              \* cleaner: the bound computed at the start of a sweep
    spending,                \* cleaner: keys still to remove (persistent backend)
    swake,                   \* cleaner: end of the current sleep
    conc,                    \* handler -> handlers whose call overlapped this call
    history,                 \* handler -> what had happened to its token when the call began
    consumed,                \* tokens for which some call recorded Passed
    swept,                   \* tokens removed by clear_expired
    ret,                     \* the last call made on the storage directly, and its result
    mtask,                   \* task -> its operation on the map and how far it got
    mqueue,                  \* the tasks waiting for the map's RwLock, first come first
    twin,                    \* a MemoryStorage and a CacacheStorage given the same calls
    twin_got,                \* what the last get_answer returned, from each of the two
    builder,                 \* the CaptchaBuilder before build()
    asked,                   \* setting -> what the caller last asked the builder for
    finding,                 \* the last finder run: the finder, the request, the results
    captcha_state,           \* handler -> what get_captcha_state last returned downstream
    issue,                   \* the last new_captcha call: what the captcha crate gave,
                             \* what the call returned, the tokens stored before it
    given,                   \* live token -> the answer store_answer was given, and when
    sweep                    \* the running or last clear_expired call: when it began,
                             \* what it found, which removals failed

vars == <<backend, case_sensitive, captcha_expired_after, clean_interval,
          storage, next_token, clock, hpc, req, depot, lookup, calls,
          spc, sthreshold, spending, swake, conc, history, consumed, swept,
          given, sweep, ret, mtask, mqueue, twin, twin_got,
          builder, asked, issue, finding, captcha_state>>

config == <<backend, case_sensitive, captcha_expired_after, clean_interval>>
handler_vars == <<hpc, req, depot, lookup, calls, conc, history>>
sweeper_vars == <<spc, sthreshold, spending, swake>>
ghost_vars == <<given, sweep>>
twin_vars == <<twin, twin_got>>
late_vars == <<builder, asked, issue, finding, captcha_state>>
direct_vars == <<ret, mtask, mqueue, twin_vars, late_vars>>

\* ---------------------------------------------------------------- finders
None == [k |-> "None"]
SomeNone == [k |-> "SomeNone"]
SomeSome(v) == [k |-> "Some", v |-> v]

\* what a CaptchaFinder returns for a field, as the header finder computes it:
\* headers().get(..).map(|t| t.to_str().map(ToString::to_string).ok())
find_value(fd) ==
    IF fd.h = "missing" THEN None
    ELSE IF fd.h = "opaque" THEN SomeNone
    ELSE SomeSome(fd.v)

find_token(r) == find_value(r.token)

find_answer(r) == find_value(r.answer)

\* ---- the three finders, each with its keys
FinderKinds == {"header", "form", "query"}

\* CaptchaHeaderFinder::default, CaptchaFormFinder::default,
\* CaptchaQueryFinder::default
default_finder(kind) ==
    [kind |-> kind,
     token |-> CASE kind = "header" -> "x-captcha-token"
                 [] kind = "form" -> "captcha_token"
                 [] kind = "query" -> "c_t",
     answer |-> CASE kind = "header" -> "x-captcha-answer"
                  [] kind = "form" -> "captcha_answer"
                  [] kind = "query" -> "c_a"]

\* token_header(..) / token_name(..) and answer_header(..) / answer_name(..)
custom_finder(kind) == [kind |-> kind, token |-> "my-token", answer |-> "my-answer"]

Finders == {default_finder(k) : k \in FinderKinds} \cup {custom_finder(k) : k \in FinderKinds}

\* the names under which a request of the finder's kind may carry values
FinderKeys(kind) ==
    {default_finder(kind).token, default_finder(kind).answer,
     custom_finder(kind).token, custom_finder(kind).answer}

\* a finder that looks under the default name whatever it was configured with
configured_key_default(f, which) == default_finder(f.kind)[which]

\* &self.token_header / &self.token_name, &self.answer_header / &self.answer_name
configured_key(f, which) == f[which]

\* what a finder of the kind returns for a name: headers().get(name) and
\* to_str(); form_data().await.ok() and fields.get(name); queries().get(name)
find_in(kind, w, name) ==
    IF kind = "header" THEN find_value(w.fields[name])
    ELSE IF kind = "form" /\ ~w.form_ok THEN None
    ELSE IF w.fields[name].h = "missing" THEN None
    ELSE SomeSome(w.fields[name].v)

finder_find_token(f, w) == find_in(f.kind, w, configured_key(f, "token"))

finder_find_answer(f, w) == find_in(f.kind, w, configured_key(f, "answer"))

\* the requests a finder of the kind may meet: header values may be unreadable,
\* form fields and query parameters are strings, a form body may fail to parse
WireValues == {Hello, Eacute}
WireRequests(kind) ==
    [form_ok : IF kind = "form" THEN BOOLEAN ELSE {TRUE},
     fields : [FinderKeys(kind) ->
                {NoField} \cup {Field(v) : v \in WireValues}
                \cup (IF kind = "header" THEN {BadField} ELSE {})]]

NoFound == [finder |-> default_finder("header"),
            request |-> [form_ok |-> TRUE,
                         fields |-> [n \in FinderKeys("header") |-> NoField]],
            token |-> [k |-> "NotCalled"],
            answer |-> [k |-> "NotCalled"]]

\* a skipper that is never consulted
skipped_never(r) == FALSE

\* self.skipper.as_ref().skipped(req, depot): the predicate's verdict on the request
skipped(r) == r.skip

\* ------------------------------------------------------------- comparison
to_ascii_lowercase(b) == IF b >= 65 /\ b <= 90 THEN b + 32 ELSE b

eq_ignore_ascii_case(a, b) ==
    /\ Len(a) = Len(b)
    /\ \A i \in 1..Len(a) : to_ascii_lowercase(a[i]) = to_ascii_lowercase(b[i])

\* a comparison that knows exact equality only
answer_accepted_exact(captch_answer, answer, cs) == captch_answer = answer

\* (captch_answer == answer && self.case_sensitive)
\*     || captch_answer.eq_ignore_ascii_case(&answer)
answer_accepted(captch_answer, answer, cs) ==
    \/ (captch_answer = answer /\ cs)
    \/ eq_ignore_ascii_case(captch_answer, answer)

\* ---------------------------------------------------------- handle's arms
\* enum CaptchaState: what a depot can hold under CAPTCHA_STATE_KEY
CaptchaState == {"Skipped", "Passed", "TokenNotFound", "AnswerNotFound",
                 "WrongToken", "WrongAnswer", "StorageError"}

\* match self.finder.find_token(req).await
token_arm(found) ==
    IF found.k = "Some" THEN "continue"
    ELSE IF found.k = "SomeNone" THEN "TokenNotFound"
    ELSE "WrongToken"

\* an answer match that lets a request without answer through
answer_arm_lenient(found) ==
    IF found.k = "SomeNone" THEN "AnswerNotFound" ELSE "continue"

\* match self.finder.find_answer(req).await
answer_arm(found) ==
    IF found.k = "Some" THEN "continue"
    ELSE IF found.k = "SomeNone" THEN "AnswerNotFound"
    ELSE "WrongAnswer"

\* a storage match that tells an unknown token from a wrong one
storage_arm_oracle(got, answer, cs) ==
    IF got.k = "Err" THEN "StorageError"
    ELSE IF got.k = "None" THEN "TokenNotFound"
    ELSE IF answer_accepted(got.v, answer, cs) THEN "clear"
    ELSE "WrongAnswer"

\* match self.storage.get_answer(&token).await, up to the first await of the arm
storage_arm(got, answer, cs) ==
    IF got.k = "Err" THEN "StorageError"
    ELSE IF got.k = "None" THEN "WrongToken"
    ELSE IF answer_accepted(got.v, answer, cs) THEN "clear"
    ELSE "WrongAnswer"

\* a handler that returns from the skipper's arm without an insert
extract_silent(r) ==
    IF skipped(r) THEN "Unset"
    ELSE IF token_arm(find_token(r)) # "continue" THEN token_arm(find_token(r))
    ELSE answer_arm(find_answer(r))

\* the outcome of the part of handle that runs before the storage is asked;
\* "continue" when both values were extracted
extract(r) ==
    IF skipped(r) THEN "Skipped"
    ELSE IF token_arm(find_token(r)) # "continue" THEN token_arm(find_token(r))
    ELSE answer_arm(find_answer(r))

\* the collaborators that part calls, in order
extract_calls(r) ==
    IF skipped(r) THEN <<"skipper">>
    ELSE IF token_arm(find_token(r)) # "continue" THEN <<"skipper", "find_token">>
    ELSE <<"skipper", "find_token", "find_answer">>

\* ---------------------------------------------------------------- storage
now_secs == clock \div TicksPerSec

as_secs(d) == d \div TicksPerSec

TimeModulus == 2 ^ TimeBits

\* the backend's creation stamp: seconds in the map, milliseconds in the index
stamp == IF backend = "memory" THEN now_secs ELSE clock

\* outcomes of one I/O call: the map cannot fail, the cache can
io_results == IF backend = "memory" THEN {TRUE} ELSE BOOLEAN

\* the record keeps the answer in lower case
inserted_folded(tok, answer) ==
    [t \in DOMAIN storage \cup {tok} |->
        IF t = tok
        THEN [time |-> stamp,
              answer |-> [i \in 1..Len(answer) |-> to_ascii_lowercase(answer[i])]]
        ELSE storage[t]]

\* a store that stamps anew the records it finds
inserted_restamped(tok, answer) ==
    [t \in DOMAIN storage \cup {tok} |->
        [answer |-> IF t = tok THEN answer ELSE storage[t].answer, time |-> stamp]]

\* write_lock.insert(token, (now(), answer)) / cacache::write(dir, token, bytes)
inserted(tok, answer) ==
    [t \in DOMAIN storage \cup {tok} |->
        IF t = tok THEN [time |-> stamp, answer |-> answer] ELSE storage[t]]

\* a removal that leaves every record in place
removed_none(toks) == storage

\* the storage after retain / remove took the records of `toks` away
removed(toks) == [t \in DOMAIN storage \ toks |-> storage[t]]

\* String::from_utf8 accepts the bytes: one-byte characters, and lead bytes
\* followed by the continuation bytes they announce
RECURSIVE is_utf8(_)
is_utf8(b) ==
    LET width == IF b[1] < 128 THEN 1
                 ELSE IF b[1] >= 194 /\ b[1] <= 223 THEN 2
                 ELSE IF b[1] >= 224 /\ b[1] <= 239 THEN 3
                 ELSE IF b[1] >= 240 /\ b[1] <= 244 THEN 4
                 ELSE 0
    IN  IF b = <<>> THEN TRUE
        ELSE /\ width > 0
             /\ Len(b) >= width
             /\ \A i \in 2..width : b[i] >= 128 /\ b[i] <= 191
             /\ is_utf8(SubSeq(b, width + 1, Len(b)))

\* storage.get_answer(token).  The map hands back the String it holds; the
\* cache reads bytes and unwraps String::from_utf8 with expect, which panics
\* on bytes that are not UTF-8.
get_answer(tok, ok) ==
    IF ~ok THEN [k |-> "Err"]
    ELSE IF tok \notin DOMAIN storage THEN None
    ELSE IF backend = "cacache" /\ ~is_utf8(storage[tok].answer) THEN [k |-> "Panic"]
    ELSE SomeSome(storage[tok].answer)

\* a retain that also keeps the records stamped with the bound itself
memory_expired_lax(bound) == {t \in DOMAIN storage : ~(storage[t].time >= bound)}

\* the records MemoryStorage::clear_expired drops for a bound
memory_expired(bound) == {t \in DOMAIN storage : ~(storage[t].time > bound)}

\* a filter that passes over the entries whose age is exactly expired_after
cacache_expired_strict(now, expired_after) ==
    {t \in DOMAIN storage : now > storage[t].time + expired_after}

\* the keys CacacheStorage::clear_expired collects
cacache_expired(now, expired_after) ==
    {t \in DOMAIN storage : now >= storage[t].time + expired_after}

\* what is remembered of the answers given to store_answer, for the tokens
\* that are left after the storage has changed to `after`
kept(after) == [t \in DOMAIN given \cap DOMAIN after |-> given[t]]

\* what is remembered of the clear_expired call that is running or has just
\* returned: when it began, the records it found with their time of birth, the
\* keys it called remove for, those whose removal failed, and what it returned
NoSweep == [at |-> 0, seen |-> <<>>, tried |-> {}, failed |-> {}, result |-> "none"]

\* the tasks that use the map of MemoryStorage at the same time
MapTasks == {"t1", "t2", "t3"}

NoCall == [n |-> 0, tok |-> 0, ok |-> TRUE, prev |-> 0]

\* what a call on the map carries to its critical section: the token, the
\* answer to store, the bound of the sweep
NoArg == [tok |-> 0, answer |-> <<>>, bound |-> 0]

NoOp == [pc |-> "idle", op |-> "none", arg |-> NoArg, got |-> [k |-> "NotCalled"]]

MapOps == {"store_answer", "get_answer", "clear_expired", "clear_by_token"}

\* every operation takes the lock for reading
lock_mode_shared(op) == "read"

\* how each operation of MemoryStorage takes the RwLock: self.0.read() in
\* get_answer, self.0.write() in the three others
lock_mode(op) == IF op = "get_answer" THEN "read" ELSE "write"

\* the lock hands itself to any task that waits, not to the first in line
next_in_line_any(queue) == {queue[i] : i \in 1..Len(queue)}

\* tokio::sync::RwLock serves its waiters first in, first out
next_in_line(queue) == IF queue = <<>> THEN {} ELSE {Head(queue)}

\* two empty storages, side by side
NoTwin == [memory |-> <<>>, cacache |-> <<>>, state |-> "running"]

\* ---------------------------------------------------------------- builder
\* Duration::from_secs(60 * 5) and Duration::from_secs(60)
DefaultExpiredAfterSecs == 300
DefaultCleanIntervalSecs == 60

\* CaptchaBuilder::new(storage, finder)
builder_new ==
    [captcha_expired_after |-> DefaultExpiredAfterSecs * TicksPerSec,
     clean_interval |-> DefaultCleanIntervalSecs * TicksPerSec,
     skipper |-> "none_skipper",
     case_sensitive |-> TRUE]

\* CaptchaBuilder::case_insensitive
builder_case_insensitive(b) == [b EXCEPT !.case_sensitive = FALSE]

\* a setter that sets the interval of the cleaner as well
builder_expired_after_coupled(b, d) ==
    [b EXCEPT !.captcha_expired_after = d, !.clean_interval = d]

\* CaptchaBuilder::expired_after
builder_expired_after(b, d) == [b EXCEPT !.captcha_expired_after = d]

\* CaptchaBuilder::clean_interval
builder_clean_interval(b, d) == [b EXCEPT !.clean_interval = d]

\* CaptchaBuilder::skipper
builder_skipper(b, k) == [b EXCEPT !.skipper = k]

\* nothing was asked of the builder
NotAsked ==
    [f \in {"captcha_expired_after", "clean_interval", "skipper", "case_sensitive"} |->
        [set |-> FALSE]]

\* what the caller may ask for
BuilderAges == {0, TicksPerSec}
BuilderIntervals == {1, TicksPerSec}
Skippers == {"none_skipper", "custom_skipper"}

\* CaptchaBuilder::build: the arguments handed to Captcha::new
builder_build(b) ==
    [captcha_expired_after |-> b.captcha_expired_after,
     clean_interval |-> b.clean_interval,
     skipper |-> b.skipper,
     case_sensitive |-> b.case_sensitive]

\* ------------------------------------------------------------- generator
\* captcha::by_name(difficulty, name).as_tuple(): the answer and the png, or
\* None when the image cannot be encoded
Images == {<<137, 80>>, <<137, 78>>}
Generated == {None} \cup {SomeSome([answer |-> a, image |-> i]) : a \in StoredAnswers,
                                                                  i \in Images}

\* a generator failure comes back as the error of the call
new_captcha_none_strict == [k |-> "Err", e |-> "generator"]

\* CaptchaGenerator::new_captcha of captcha_gen.rs when as_tuple() is None:
\* return Ok(None)
new_captcha_none == [k |-> "Ok", v |-> None]

\* SimpleGenerator::new_captcha: the answer and the image, or FaildEncodedToPng
simple_new_captcha(g) ==
    IF g = None THEN [k |-> "Err", e |-> "FaildEncodedToPng"]
    ELSE [k |-> "Ok", v |-> [answer |-> g.v.answer, image |-> g.v.image]]

NoIssue == [fn |-> "none", gen |-> None, result |-> [k |-> "NotCalled"], before |-> {}]

\* ----------------------------------------------------------------- Init
\* everything but the cleaner task
Quiet ==
    /\ storage = <<>>
    /\ next_token = 1
    /\ clock = StartClock
    /\ hpc = [h \in Handlers |-> "idle"]
    /\ req = [h \in Handlers |-> NoRequest]
    /\ depot = [h \in Handlers |-> "Unset"]
    /\ lookup = [h \in Handlers |-> [k |-> "NotCalled"]]
    /\ calls = [h \in Handlers |-> <<>>]
    /\ sthreshold = 0
    /\ spending = {}
    /\ swake = 0
    /\ conc = [h \in Handlers |-> {}]
    /\ history = [h \in Handlers |-> {}]
    /\ consumed = {}
    /\ swept = {}
    /\ given = <<>>
    /\ sweep = NoSweep
    /\ ret = NoCall
    /\ mtask = [t \in MapTasks |-> NoOp]
    /\ mqueue = <<>>
    /\ twin = NoTwin
    /\ twin_got = [memory |-> [k |-> "NotCalled"], cacache |-> [k |-> "NotCalled"]]
    /\ builder = builder_new
    /\ asked = NotAsked
    /\ issue = NoIssue
    /\ finding = NoFound
    /\ captcha_state = [h \in Handlers |-> "NotRead"]

\* the Captcha is built and its cleaner task is about to sweep
Idle == Quiet /\ spc = "sweep"

Init ==
    /\ backend \in Backends
    /\ case_sensitive \in BOOLEAN
    /\ captcha_expired_after \in ExpiredAfterChoices
    /\ clean_interval \in CleanIntervalChoices
    /\ Idle

\* --------------------------------------------------------------- actions
\* time passes, for `limit` ticks at most
Pass(limit) ==
    /\ clock < StartClock + limit
    /\ clock' = clock + 1
    /\ UNCHANGED <<config, direct_vars, storage, next_token, handler_vars, sweeper_vars,
                   consumed, swept, ghost_vars>>

Tick == Pass(MaxTicks)

\* the token of a deleted record is drawn again
new_v4_reused ==
    IF consumed \cup swept # {} THEN CHOOSE t \in consumed \cup swept : TRUE
    ELSE next_token

\* uuid::Uuid::new_v4(): a token no earlier call has drawn
new_v4 == next_token

\* CaptchaStorage::store_answer, called by whoever issues a captcha, as long as
\* fewer than `limit` captchas were issued
Store(answer, limit) ==
    /\ next_token <= limit
    /\ storage' = inserted(new_v4, answer)
    /\ given' = [t \in DOMAIN given \cup {new_v4} |->
            IF t = new_v4 THEN [answer |-> answer, at |-> clock] ELSE given[t]]
    /\ next_token' = next_token + 1
    /\ UNCHANGED <<config, direct_vars, clock, handler_vars, sweeper_vars, consumed, swept, sweep>>

StoreAnswer(answer) == Store(answer, MaxTokens)

\* what is known of the request's token when the call begins
past(r) ==
    IF r.token.h # "text" THEN {}
    ELSE {x \in {"issued"} : r.token.v < next_token}
         \cup {x \in {"consumed"} : r.token.v \in consumed}
         \cup {x \in {"swept"} : r.token.v \in swept}
         \cup {x \in {"overdue"} :
                /\ r.token.v \in DOMAIN given
                /\ clock - given[r.token.v].at > captcha_expired_after}
         \cup {x \in {"asleep"} : spc = "sleep"}

\* the token and the answer bound by the Some(Some(..)) arms
token_of(h) == IF find_token(req[h]).k = "Some" THEN find_token(req[h]).v ELSE 0

answer_of(h) == IF find_answer(req[h]).k = "Some" THEN find_answer(req[h]).v ELSE <<>>

in_flight == {h \in Handlers : hpc[h] \in {"get_answer", "clear_by_token"}}

\* Captcha::handle up to its first storage call: skipper, find_token, find_answer
HandleStart(h, r) ==
    /\ hpc[h] \in {"idle", "done"}
    /\ req' = [req EXCEPT ![h] = r]
    /\ calls' = [calls EXCEPT ![h] = extract_calls(r)]
    /\ lookup' = [lookup EXCEPT ![h] = [k |-> "NotCalled"]]
    /\ history' = [history EXCEPT ![h] = past(r)]
    /\ IF extract(r) = "continue"
       THEN /\ hpc' = [hpc EXCEPT ![h] = "get_answer"]
            /\ depot' = [depot EXCEPT ![h] = "Unset"]
            /\ conc' = [g \in Handlers |->
                    IF g = h THEN in_flight \ {h}
                    ELSE IF g \in in_flight THEN conc[g] \cup {h}
                    ELSE conc[g]]
       ELSE /\ hpc' = [hpc EXCEPT ![h] = "done"]
            /\ depot' = [depot EXCEPT ![h] = extract(r)]
            /\ conc' = [conc EXCEPT ![h] = {}]
    /\ UNCHANGED <<config, direct_vars, storage, next_token, clock, sweeper_vars, consumed, swept,
                   ghost_vars>>

\* self.storage.get_answer(&token).await and the match on its result
HandleGetAnswer(h) ==
    /\ hpc[h] = "get_answer"
    /\ \E ok \in io_results :
        LET got == get_answer(token_of(h), ok)
            arm == storage_arm(got, answer_of(h), case_sensitive)
        IN  /\ lookup' = [lookup EXCEPT ![h] = got]
            /\ calls' = [calls EXCEPT ![h] = Append(@, "get_answer")]
            /\ IF got.k = "Panic"
               THEN /\ hpc' = [hpc EXCEPT ![h] = "panicked"]
                    /\ depot' = depot
               ELSE IF arm = "clear"
               THEN /\ hpc' = [hpc EXCEPT ![h] = "clear_by_token"]
                    /\ depot' = depot
               ELSE /\ hpc' = [hpc EXCEPT ![h] = "done"]
                    /\ depot' = [depot EXCEPT ![h] = arm]
    /\ UNCHANGED <<config, direct_vars, storage, next_token, clock, req, conc, history,
                   sweeper_vars, consumed, swept, ghost_vars>>

\* a retain that keeps the entry of the token and drops the others
cleared_others(tok) == removed(DOMAIN storage \ {tok})

\* a deletion that leaves an empty record under the token
cleared_tombstone(tok) ==
    [t \in DOMAIN storage \cup {tok} |->
        IF t = tok THEN [time |-> 0, answer |-> <<>>] ELSE storage[t]]

\* clear_by_token done: retain(|c_token, _| c_token != token) on the map,
\* remove(cache_dir, token) on the cache
cleared(tok) == removed({tok})

\* a deletion that reports an error for a token without a record
clear_result_strict(tok, ok) == ok /\ tok \in DOMAIN storage

\* what clear_by_token returns: Ok(()) from the map, the result of the remove
\* from the cache
clear_result(tok, ok) == ok

\* a deletion error becomes the outcome of the call
clear_arm_escalating(ok) == IF ok THEN "Passed" ELSE "StorageError"

\* the outcome after clear_by_token(..).await.ok(): the result is dropped
clear_arm(ok) == "Passed"

\* self.storage.clear_by_token(&token).await.ok(); then Passed
HandleClear(h) ==
    /\ hpc[h] = "clear_by_token"
    /\ \E ok \in io_results :
        /\ storage' = IF ok THEN cleared(token_of(h)) ELSE storage
        /\ depot' = [depot EXCEPT ![h] = clear_arm(ok)]
        /\ consumed' = IF clear_arm(ok) = "Passed" THEN consumed \cup {token_of(h)}
                       ELSE consumed
    /\ calls' = [calls EXCEPT ![h] = Append(@, "clear_by_token")]
    /\ hpc' = [hpc EXCEPT ![h] = "done"]
    /\ given' = kept(storage')
    /\ UNCHANGED <<config, direct_vars, next_token, clock, req, lookup, conc, history,
                   sweeper_vars, swept, sweep>>

\* the cleaner task: clear_expired up to its first await.  The map computes
\* now() - expired_after.as_secs() in u64: when that underflows, a build with
\* overflow checks panics (the task ends), a build without them wraps.
SweepBegin ==
    /\ spc = "sweep"
    /\ IF backend = "memory"
       THEN /\ spending' = {}
            /\ IF now_secs >= as_secs(captcha_expired_after)
               THEN /\ sthreshold' = now_secs - as_secs(captcha_expired_after)
                    /\ spc' = "retain"
               ELSE \/ /\ sthreshold' =
                            (now_secs - as_secs(captcha_expired_after)) % TimeModulus
                       /\ spc' = "retain"
                    \/ /\ sthreshold' = sthreshold
                       /\ spc' = "panicked"
       ELSE /\ spending' = cacache_expired(clock, captcha_expired_after)
            /\ sthreshold' = sthreshold
            /\ spc' = "retain"
    /\ sweep' = [at |-> clock,
                 seen |-> [t \in DOMAIN storage |-> given[t].at],
                 tried |-> {},
                 failed |-> {},
                 result |-> "none"]
    /\ UNCHANGED <<config, direct_vars, storage, next_token, clock, handler_vars, swake,
                   consumed, swept, given>>

\* the map: write_lock.retain(..) and return
SweepRetain ==
    /\ spc = "retain"
    /\ backend = "memory"
    /\ storage' = removed(memory_expired(sthreshold))
    /\ swept' = swept \cup memory_expired(sthreshold)
    /\ spc' = "sleep"
    /\ sthreshold' = 0
    /\ swake' = clock + clean_interval
    /\ given' = kept(storage')
    /\ sweep' = [sweep EXCEPT !.result = "Ok"]
    /\ UNCHANGED <<config, direct_vars, next_token, clock, handler_vars, spending, consumed>>

\* a loop that gives up at the first removal that fails
remaining_abort(key, ok) == IF ok THEN spending \ {key} ELSE {}

\* the keys the loop `for key in expr_keys` still has to visit once it has
\* called remove for `key`: the result of the removal is dropped by .ok()
remaining(key, ok) == spending \ {key}

\* the cache: one turn of `for key in expr_keys { remove(..).await.ok() }`,
\* for the key the listing yields and the outcome of its removal
SweepRemoveKey(key, ok) ==
    /\ spc = "retain"
    /\ backend = "cacache"
    /\ key \in spending
    /\ spending' = remaining(key, ok)
    /\ storage' = IF ok THEN removed({key}) ELSE storage
    /\ swept' = IF ok /\ key \in DOMAIN storage THEN swept \cup {key} ELSE swept
    /\ sweep' = [sweep EXCEPT !.tried = @ \cup {key},
                              !.failed = IF ok THEN @ ELSE @ \cup {key}]
    /\ given' = kept(storage')
    /\ UNCHANGED <<config, direct_vars, next_token, clock, handler_vars, spc, sthreshold, swake,
                   consumed>>

SweepRemove == \E key \in spending, ok \in io_results : SweepRemoveKey(key, ok)

\* the cache: the loop is over, Ok(())
SweepDone ==
    /\ spc = "retain"
    /\ backend = "cacache"
    /\ spending = {}
    /\ spc' = "sleep"
    /\ swake' = clock + clean_interval
    /\ sweep' = [sweep EXCEPT !.result = "Ok"]
    /\ UNCHANGED <<config, direct_vars, storage, next_token, clock, handler_vars, sthreshold,
                   spending, consumed, swept, given>>

\* tokio::time::sleep(clean_interval) is over
SweepWake ==
    /\ spc = "sleep"
    /\ clock >= swake
    /\ spc' = "sweep"
    /\ swake' = 0
    /\ sweep' = NoSweep
    /\ UNCHANGED <<config, direct_vars, storage, next_token, clock, handler_vars, sthreshold,
                   spending, consumed, swept, given>>

\* the running system: concurrent requests that reach the storage, the issuer
\* and the cleaner task
Next ==
    \/ Tick
    \/ \E a \in StoredAnswers : StoreAnswer(a)
    \/ \E h \in Handlers, r \in WellFormedRequests : HandleStart(h, r)
    \/ \E h \in Handlers : HandleGetAnswer(h)
    \/ \E h \in Handlers : HandleClear(h)
    \/ SweepBegin
    \/ SweepRetain
    \/ SweepRemove
    \/ SweepDone
    \/ SweepWake

\* the Captcha as CaptchaBuilder::new(..).build() makes it, but for the expiry
InitBuilt == Init /\ case_sensitive = TRUE

Spec == InitBuilt /\ [][Next]_vars

\* one request at a time, of any shape, against a storage that is being filled
NextRequest ==
    \/ \E a \in StoredAnswers : StoreAnswer(a)
    \/ \E r \in Requests : HandleStart("h1", r)
    \/ HandleGetAnswer("h1")
    \/ HandleClear("h1")

SpecRequest == Init /\ [][NextRequest]_vars

\* something else that writes the cache directory leaves bytes that are not
\* UTF-8 under a live key
ForeignWrite(t) ==
    /\ backend = "cacache"
    /\ t \in DOMAIN storage
    /\ storage[t].answer # NotText
    /\ storage' = [storage EXCEPT ![t].answer = NotText]
    /\ UNCHANGED <<config, direct_vars, next_token, clock, handler_vars, sweeper_vars,
                   consumed, swept, ghost_vars>>

\* one request at a time against a cache directory that the Captcha does not
\* own alone
NextShared ==
    \/ NextRequest
    \/ \E t \in TokenIds : ForeignWrite(t)

SpecShared == Init /\ [][NextShared]_vars

\* one request at a time while the cleaner task runs
NextSweep ==
    \/ Tick
    \/ \E a \in StoredAnswers : Store(a, MaxIssued)
    \/ \E r \in WellFormedRequests : HandleStart("h1", r)
    \/ HandleGetAnswer("h1")
    \/ HandleClear("h1")
    \/ SweepBegin
    \/ SweepRetain
    \/ SweepRemove
    \/ SweepDone
    \/ SweepWake

SpecSweep == InitBuilt /\ [][NextSweep]_vars

\* the storage on its own: store_answer by the issuer, clear_expired by the
\* cleaner task, for every maximal age
InitStorage ==
    /\ backend \in Backends
    /\ case_sensitive \in BOOLEAN
    /\ captcha_expired_after \in StorageAges
    /\ clean_interval \in CleanIntervalChoices
    /\ Idle

NextStorage ==
    \/ Pass(StorageTicks)
    \/ \E a \in StoredAnswers : Store(a, MaxIssued)
    \/ SweepBegin
    \/ SweepRetain
    \/ SweepRemove
    \/ SweepDone
    \/ SweepWake

SpecStorage == InitStorage /\ [][NextStorage]_vars

\* CaptchaStorage::clear_by_token called on the storage directly, for any token
ClearByToken(t) ==
    /\ ret.n < MaxCalls
    /\ \E ok \in io_results :
        /\ storage' = IF ok THEN cleared(t) ELSE storage
        /\ ret' = [n |-> ret.n + 1, tok |-> t, ok |-> clear_result(t, ok),
                   prev |-> ret.tok]
    /\ given' = kept(storage')
    /\ UNCHANGED <<config, next_token, clock, handler_vars, sweeper_vars,
                   consumed, swept, sweep, mtask, mqueue, twin_vars, late_vars>>

\* the storage on its own: captchas are issued and deleted by token
NextClear ==
    \/ \E a \in StoredAnswers : Store(a, MaxIssued)
    \/ \E t \in 1..MaxIssued : ClearByToken(t)

SpecClear == InitStorage /\ [][NextClear]_vars

\* the tasks that hold the lock of the map in a mode
holders(mode) ==
    {t \in MapTasks : mtask[t].pc = "holding" /\ lock_mode(mtask[t].op) = mode}

\* RwLock: a writer needs the lock free, a reader needs it free of writers
can_lock(mode) ==
    IF mode = "write" THEN holders("read") \cup holders("write") = {}
    ELSE holders("write") = {}

\* a task calls an operation of MemoryStorage and runs it up to the .await of
\* the lock: store_answer has drawn its token, clear_expired has computed its
\* bound (in u64: on underflow it panics or wraps, with the build)
MapCall(t, op, tok, answer) ==
    /\ backend = "memory"
    /\ mtask[t].pc = "idle"
    /\ CASE op = "store_answer" ->
                tok = new_v4 /\ next_token <= MaxIssued /\ answer \in StoredAnswers
         [] op = "clear_expired" -> tok = 0 /\ answer = <<>>
         [] OTHER -> tok \in 1..MaxIssued /\ answer = <<>>
    /\ next_token' = IF op = "store_answer" THEN next_token + 1 ELSE next_token
    /\ \/ /\ op = "clear_expired" /\ now_secs < as_secs(captcha_expired_after)
          /\ mtask' = [mtask EXCEPT ![t] =
                [pc |-> "panicked", op |-> op, arg |-> NoArg, got |-> [k |-> "NotCalled"]]]
          /\ mqueue' = mqueue
       \/ /\ mtask' = [mtask EXCEPT ![t] =
                [pc |-> "waiting", op |-> op,
                 arg |-> [tok |-> tok,
                          answer |-> answer,
                          bound |-> IF op = "clear_expired"
                                    THEN (now_secs - as_secs(captcha_expired_after))
                                            % TimeModulus
                                    ELSE 0],
                 got |-> [k |-> "NotCalled"]]]
          /\ mqueue' = Append(mqueue, t)
    /\ UNCHANGED <<config, storage, clock, handler_vars, sweeper_vars, consumed, swept,
                   ghost_vars, ret, twin_vars, late_vars>>

\* the lock is handed to the task
MapGrant(t) ==
    /\ mtask[t].pc = "waiting"
    /\ t \in next_in_line(mqueue)
    /\ can_lock(lock_mode(mtask[t].op))
    /\ mtask' = [mtask EXCEPT ![t].pc = "holding"]
    /\ mqueue' = SelectSeq(mqueue, LAMBDA u : u # t)
    /\ UNCHANGED <<config, storage, next_token, clock, handler_vars, sweeper_vars, consumed,
                   swept, ghost_vars, ret, twin_vars, late_vars>>

\* the task works on the map under its guard and returns, which drops the guard
MapFinish(t) ==
    /\ mtask[t].pc = "holding"
    /\ LET op == mtask[t].op
           arg == mtask[t].arg
       IN  /\ storage' =
                CASE op = "store_answer" -> inserted(arg.tok, arg.answer)
                  [] op = "get_answer" -> storage
                  [] op = "clear_expired" -> removed(memory_expired(arg.bound))
                  [] op = "clear_by_token" -> cleared(arg.tok)
           /\ mtask' = [mtask EXCEPT ![t] =
                [NoOp EXCEPT !.got = IF op = "get_answer" THEN get_answer(arg.tok, TRUE)
                                     ELSE [k |-> "NotCalled"]]]
           /\ given' = IF op = "store_answer"
                        THEN [u \in DOMAIN given \cup {arg.tok} |->
                                IF u = arg.tok THEN [answer |-> arg.answer, at |-> clock]
                                ELSE given[u]]
                        ELSE kept(storage')
    /\ UNCHANGED <<config, next_token, clock, handler_vars, sweeper_vars, consumed, swept,
                   sweep, ret, mqueue, twin_vars, late_vars>>

\* the map of MemoryStorage used by several tasks at once (the comparison of
\* answers plays no part in it)
InitLock == InitStorage /\ backend = "memory" /\ case_sensitive

NextLock ==
    \/ \E t \in MapTasks, op \in MapOps, tok \in 0..MaxIssued, a \in StoredAnswers \cup {<<>>} :
            MapCall(t, op, tok, a)
    \/ \E t \in MapTasks : MapGrant(t)
    \/ \E t \in MapTasks : MapFinish(t)

SpecLock == InitLock /\ [][NextLock]_vars

\* the runtime goes on polling a task that can take the lock or can finish
FairLock ==
    \A t \in MapTasks : WF_vars(MapGrant(t)) /\ WF_vars(MapFinish(t))

SpecLockFair == InitLock /\ [][NextLock]_vars /\ FairLock

\* past the last tick that is counted time still passes: the sleep of the
\* cleaner task comes to its end
Overtime ==
    /\ clock = StartClock + LiveTicks
    /\ spc = "sleep"
    /\ swake > clock
    /\ swake' = clock
    /\ UNCHANGED <<config, direct_vars, storage, next_token, clock, handler_vars, spc,
                   sthreshold, spending, consumed, swept, ghost_vars>>

NextLive ==
    \/ Pass(LiveTicks)
    \/ \E a \in StoredAnswers : Store(a, MaxIssued)
    \/ SweepBegin
    \/ SweepRetain
    \/ SweepRemove
    \/ SweepDone
    \/ SweepWake
    \/ Overtime

\* the clock advances, the runtime goes on polling the cleaner task while it
\* can take a step (tokio::spawn, lib.rs:175), and the removal of a key that is
\* listed again and again succeeds in the end
FairLive ==
    /\ WF_vars(Pass(LiveTicks))
    /\ WF_vars(Overtime)
    /\ WF_vars(SweepBegin)
    /\ WF_vars(SweepRetain)
    /\ WF_vars(SweepRemove)
    /\ WF_vars(SweepDone)
    /\ WF_vars(SweepWake)
    /\ \A key \in 1..MaxIssued : SF_vars(SweepRemoveKey(key, TRUE))

\* the storage and the cleaner task, followed for as long as they run
SpecLive == InitStorage /\ [][NextLive]_vars /\ FairLive

\* ---- the two backends side by side, given the same calls at the same times
\* MemoryStorage::store_answer: insert(token, (now(), answer)), now() in seconds
memory_stored(s, tok, answer) ==
    [t \in DOMAIN s \cup {tok} |->
        IF t = tok THEN [time |-> now_secs, answer |-> answer] ELSE s[t]]

\* CacacheStorage::store_answer: cacache::write, the index entry is stamped in
\* milliseconds
cacache_stored(s, tok, answer) ==
    [t \in DOMAIN s \cup {tok} |->
        IF t = tok THEN [time |-> clock, answer |-> answer] ELSE s[t]]

\* MemoryStorage::clear_expired: retain(|_, (timestamp, _)| *timestamp > bound)
memory_retained(s, bound) ==
    [t \in {u \in DOMAIN s : s[u].time > bound} |-> s[t]]

\* CacacheStorage::clear_expired when every removal succeeds: the entries with
\* now >= meta.time + expired_after are gone
cacache_retained(s, now, expired_after) ==
    [t \in {u \in DOMAIN s : ~(now >= s[u].time + expired_after)} |-> s[t]]

\* clear_by_token of either backend
without(s, tok) == [t \in DOMAIN s \ {tok} |-> s[t]]

\* MemoryStorage::get_answer
memory_found(s, tok) == IF tok \in DOMAIN s THEN SomeSome(s[tok].answer) ELSE None

\* CacacheStorage::get_answer when the read succeeds
cacache_found(s, tok) ==
    IF tok \notin DOMAIN s THEN None
    ELSE IF ~is_utf8(s[tok].answer) THEN [k |-> "Panic"]
    ELSE SomeSome(s[tok].answer)

TwinStore(answer) ==
    /\ twin.state = "running"
    /\ next_token <= MaxIssued
    /\ twin' = [twin EXCEPT !.memory = memory_stored(@, new_v4, answer),
                            !.cacache = cacache_stored(@, new_v4, answer)]
    /\ next_token' = next_token + 1
    /\ UNCHANGED <<config, storage, clock, handler_vars, sweeper_vars, consumed, swept,
                   ghost_vars, ret, mtask, mqueue, twin_got, late_vars>>

TwinGet(tok) ==
    /\ twin.state = "running"
    /\ twin_got' = [memory |-> memory_found(twin.memory, tok),
                    cacache |-> cacache_found(twin.cacache, tok)]
    /\ twin_got' # twin_got
    /\ UNCHANGED <<config, storage, next_token, clock, handler_vars, sweeper_vars, consumed,
                   swept, ghost_vars, ret, mtask, mqueue, twin, late_vars>>

TwinClearByToken(tok) ==
    /\ twin.state = "running"
    /\ tok < next_token
    /\ twin' = [twin EXCEPT !.memory = without(@, tok), !.cacache = without(@, tok)]
    /\ UNCHANGED <<config, storage, next_token, clock, handler_vars, sweeper_vars, consumed,
                   swept, ghost_vars, ret, mtask, mqueue, twin_got, late_vars>>

\* clear_expired(captcha_expired_after) on both; the map's bound is computed in
\* u64 and its underflow panics or wraps, with the build
TwinClearExpired ==
    /\ twin.state = "running"
    /\ \/ /\ now_secs < as_secs(captcha_expired_after)
          /\ twin' = [twin EXCEPT !.state = "panicked"]
       \/ twin' = [twin EXCEPT
                !.memory = memory_retained(@,
                    (now_secs - as_secs(captcha_expired_after)) % TimeModulus),
                !.cacache = cacache_retained(@, clock, captcha_expired_after)]
    /\ UNCHANGED <<config, storage, next_token, clock, handler_vars, sweeper_vars, consumed,
                   swept, ghost_vars, ret, mtask, mqueue, twin_got, late_vars>>

NextTwin ==
    \/ Pass(StorageTicks)
    \/ \E a \in StoredAnswers : TwinStore(a)
    \/ \E t \in 1..MaxIssued : TwinGet(t)
    \/ \E t \in 1..MaxIssued : TwinClearByToken(t)
    \/ TwinClearExpired

\* one maximal age for both, whole seconds or not
InitTwin == InitStorage /\ backend = "memory" /\ case_sensitive

SpecTwin == InitTwin /\ [][NextTwin]_vars

\* ---- the builder, and the Captcha it builds
building == <<backend, storage, next_token, clock, handler_vars, sthreshold, spending,
              swake, consumed, swept, ghost_vars, ret, mtask, mqueue, twin_vars>>

SetExpiredAfter(d) ==
    /\ spc = "unbuilt"
    /\ builder' = builder_expired_after(builder, d)
    /\ asked' = [asked EXCEPT !.captcha_expired_after = [set |-> TRUE, v |-> d]]
    /\ UNCHANGED <<building, spc, case_sensitive, captcha_expired_after, clean_interval,
                   issue, finding, captcha_state>>

SetCleanInterval(d) ==
    /\ spc = "unbuilt"
    /\ builder' = builder_clean_interval(builder, d)
    /\ asked' = [asked EXCEPT !.clean_interval = [set |-> TRUE, v |-> d]]
    /\ UNCHANGED <<building, spc, case_sensitive, captcha_expired_after, clean_interval,
                   issue, finding, captcha_state>>

SetCaseInsensitive ==
    /\ spc = "unbuilt"
    /\ builder' = builder_case_insensitive(builder)
    /\ asked' = [asked EXCEPT !.case_sensitive = [set |-> TRUE, v |-> FALSE]]
    /\ builder' # builder
    /\ UNCHANGED <<building, spc, case_sensitive, captcha_expired_after, clean_interval,
                   issue, finding, captcha_state>>

SetSkipper(k) ==
    /\ spc = "unbuilt"
    /\ builder' = builder_skipper(builder, k)
    /\ asked' = [asked EXCEPT !.skipper = [set |-> TRUE, v |-> k]]
    /\ UNCHANGED <<building, spc, case_sensitive, captcha_expired_after, clean_interval,
                   issue, finding, captcha_state>>

\* build(): Captcha::new keeps case_sensitive and moves the two durations into
\* the cleaner task it spawns
Build ==
    /\ spc = "unbuilt"
    /\ captcha_expired_after' = builder_build(builder).captcha_expired_after
    /\ clean_interval' = builder_build(builder).clean_interval
    /\ case_sensitive' = builder_build(builder).case_sensitive
    /\ spc' = "sweep"
    /\ UNCHANGED <<building, late_vars>>

NextBuild ==
    \/ \E d \in BuilderAges : SetExpiredAfter(d)
    \/ \E d \in BuilderIntervals : SetCleanInterval(d)
    \/ SetCaseInsensitive
    \/ \E k \in Skippers : SetSkipper(k)
    \/ Build
    \/ Tick
    \/ \E a \in StoredAnswers : StoreAnswer(a)
    \/ SweepBegin
    \/ SweepRetain
    \/ SweepRemove
    \/ SweepDone
    \/ SweepWake

\* a builder fresh from CaptchaBuilder::new; no Captcha yet, so no cleaner task
InitBuild ==
    /\ backend \in Backends
    /\ case_sensitive = TRUE
    /\ captcha_expired_after = 0
    /\ clean_interval = 0
    /\ Quiet
    /\ spc = "unbuilt"

SpecBuild == InitBuild /\ [][NextBuild]_vars

\* ---- issuing a captcha
\* CaptchaGenerator::new_captcha(name, difficulty) on a storage: generate, then
\* self.store_answer(captcha_answer).await?
NewCaptcha(g) ==
    /\ next_token <= MaxIssued
    /\ \E ok \in io_results :
        LET stored == g # None /\ ok
        IN  /\ storage' = IF stored THEN inserted(new_v4, g.v.answer) ELSE storage
            /\ next_token' = IF g # None THEN next_token + 1 ELSE next_token
            /\ given' = IF stored
                         THEN [t \in DOMAIN given \cup {new_v4} |->
                                IF t = new_v4 THEN [answer |-> g.v.answer, at |-> clock]
                                ELSE given[t]]
                         ELSE given
            /\ issue' = [fn |-> "CaptchaGenerator::new_captcha",
                         gen |-> g,
                         result |-> IF g = None THEN new_captcha_none
                                    ELSE IF ~ok THEN [k |-> "Err", e |-> "storage"]
                                    ELSE [k |-> "Ok",
                                          v |-> SomeSome([token |-> new_v4,
                                                          image |-> g.v.image])],
                         before |-> DOMAIN storage]
    /\ UNCHANGED <<config, clock, handler_vars, sweeper_vars, consumed, swept, sweep,
                   ret, mtask, mqueue, twin_vars, builder, asked,
                   finding, captcha_state>>

\* SimpleGenerator::new_captcha(): generate, nothing else
SimpleNewCaptcha(g) ==
    /\ issue' = [fn |-> "SimpleGenerator::new_captcha",
                 gen |-> g,
                 result |-> simple_new_captcha(g),
                 before |-> DOMAIN storage]
    /\ issue' # issue
    /\ UNCHANGED <<config, storage, next_token, clock, handler_vars, sweeper_vars, consumed,
                   swept, ghost_vars, ret, mtask, mqueue, twin_vars, builder, asked,
                   finding, captcha_state>>

NextIssue ==
    \/ \E g \in Generated : NewCaptcha(g)
    \/ \E g \in Generated : SimpleNewCaptcha(g)

SpecIssue == InitStorage /\ [][NextIssue]_vars

\* ---- a finder run on a request
Find(f, w) ==
    /\ finding' = [finder |-> f, request |-> w,
                 token |-> finder_find_token(f, w),
                 answer |-> finder_find_answer(f, w)]
    /\ finding' # finding
    /\ UNCHANGED <<config, storage, next_token, clock, handler_vars, sweeper_vars, consumed,
                   swept, ghost_vars, ret, mtask, mqueue, twin_vars, builder, asked, issue,
                   captcha_state>>

NextFind == \E f \in Finders : \E w \in WireRequests(f.kind) : Find(f, w)

SpecFind == InitBuilt /\ [][NextFind]_vars

\* ---- the depot read downstream of the middleware
\* a depot without an entry reads as Passed
get_captcha_state_passed(d) == IF d = "Unset" THEN "Passed" ELSE d

\* self.get(CAPTCHA_STATE_KEY).cloned().unwrap_or_default(), the default being
\* the variant marked #[default]: Skipped
get_captcha_state(d) == IF d = "Unset" THEN "Skipped" ELSE d

\* a handler after the middleware, or one on a route without it, reads the
\* depot of its request
GetCaptchaState(h) ==
    /\ hpc[h] \in {"idle", "done"}
    /\ captcha_state' = [captcha_state EXCEPT ![h] = get_captcha_state(depot[h])]
    /\ captcha_state' # captcha_state
    /\ UNCHANGED <<config, storage, next_token, clock, handler_vars, sweeper_vars, consumed,
                   swept, ghost_vars, ret, mtask, mqueue, twin_vars, builder, asked, issue,
                   finding>>

\* requests through the middleware and reads of their depots; h2 is on a route
\* without the middleware
NextRead ==
    \/ NextRequest
    \/ \E h \in Handlers : GetCaptchaState(h)

SpecRead == Init /\ [][NextRead]_vars

\* ================================================================ claims
StorageOps == {"get_answer", "clear_by_token"}

storage_calls(h) == {i \in 1..Len(calls[h]) : calls[h][i] \in StorageOps}

\* h's call and g's call overlapped in time
Overlapped(h, g) == g \in conc[h] /\ h \in conc[g]

\* the call of h is over and was not skipped
Checked(h) == hpc[h] = "done" /\ ~req[h].skip

\* the call of h is over and asked the storage with both values extracted
Looked(h) == Checked(h) /\ req[h].token.h = "text" /\ req[h].answer.h = "text"

\* C1: of two or more overlapping handle calls that submit the same token with
\* a correct answer, at most one ends with Passed and every other one ends with
\* WrongToken.
C1_OnePassedPerToken ==
    \A h \in Handlers : \A g \in Handlers \ {h} :
        (/\ Looked(h) /\ Looked(g)
         /\ Overlapped(h, g)
         /\ req[h].token = req[g].token
         /\ req[h].answer = req[g].answer
         /\ lookup[g].k # "Err"
         /\ depot[h] = "Passed")
        => depot[g] = "WrongToken"

\* C2: once a handle call has recorded Passed for a token, the token has no
\* record any more (get_answer returns None), and every call that begins
\* afterwards with that token ends with WrongToken, also when the delete step of
\* the successful call failed.
C2_SingleConsumption ==
    /\ \A t \in consumed : t \notin DOMAIN storage
    /\ \A h \in Handlers :
        (Looked(h) /\ "consumed" \in history[h] /\ lookup[h].k # "Err")
        => depot[h] = "WrongToken"

\* C3: with case_sensitive = true a call ends with Passed only when the
\* submitted answer equals the stored one byte for byte; an answer that differs
\* in letter case ends with WrongAnswer.
C3_CaseSensitiveIsExact ==
    \A h \in Handlers :
        (Looked(h) /\ case_sensitive /\ lookup[h].k = "Some")
        => /\ depot[h] = "Passed" <=> lookup[h].v = req[h].answer.v
           /\ depot[h] = "WrongAnswer" <=> lookup[h].v # req[h].answer.v

\* str::to_lowercase on the sample alphabet: ASCII letters and the two-byte
\* letters U+00C0..U+00DE
RECURSIVE LowerCase(_)
LowerCase(s) ==
    IF s = <<>> THEN <<>>
    ELSE IF s[1] = 195 /\ Len(s) >= 2
    THEN <<195, IF s[2] >= 128 /\ s[2] <= 158 /\ s[2] # 151 THEN s[2] + 32 ELSE s[2]>>
         \o LowerCase(SubSeq(s, 3, Len(s)))
    ELSE <<IF s[1] >= 65 /\ s[1] <= 90 THEN s[1] + 32 ELSE s[1]>> \o LowerCase(Tail(s))

\* the same string up to the case of the letters A..Z only
AsciiUpper(s) == [i \in 1..Len(s) |-> IF s[i] >= 97 /\ s[i] <= 122 THEN s[i] - 32 ELSE s[i]]

\* C4 as stated: with the case-insensitive policy a call ends with Passed
\* exactly when the submitted answer equals the stored one ignoring letter case,
\* and with WrongAnswer otherwise.
C4_IgnoresLetterCase ==
    \A h \in Handlers :
        (Looked(h) /\ ~case_sensitive /\ lookup[h].k = "Some")
        => /\ depot[h] = "Passed" <=> LowerCase(lookup[h].v) = LowerCase(req[h].answer.v)
           /\ depot[h] \in {"Passed", "WrongAnswer"}

\* C4 amended: with the case-insensitive policy a call ends with Passed exactly
\* when the submitted answer equals the stored one ignoring the case of the
\* ASCII letters A-Z/a-z, every other byte compared exactly, and with
\* WrongAnswer otherwise.
C4_IgnoresAsciiCase ==
    \A h \in Handlers :
        (Looked(h) /\ ~case_sensitive /\ lookup[h].k = "Some")
        => /\ depot[h] = "Passed" <=> AsciiUpper(lookup[h].v) = AsciiUpper(req[h].answer.v)
           /\ depot[h] \in {"Passed", "WrongAnswer"}

\* an answer in another ASCII case has passed under the case-insensitive policy
C4_Witness ==
    /\ ~case_sensitive
    /\ Looked("h1")
    /\ depot["h1"] = "Passed"
    /\ lookup["h1"].k = "Some"
    /\ lookup["h1"].v = Hello
    /\ req["h1"].answer.v = HELLO

\* C5: for a request that is not skipped, a token the finder reports absent
\* (find_token returns None) gives TokenNotFound, a token it reports present but
\* invalid (find_token returns Some(None)) gives WrongToken.
C5_TokenExtraction ==
    \A h \in Handlers :
        Checked(h) =>
            /\ find_token(req[h]).k = "None" => depot[h] = "TokenNotFound"
            /\ find_token(req[h]).k = "SomeNone" => depot[h] = "WrongToken"

\* C6: for a request that is not skipped and whose token was extracted, an
\* answer the finder reports absent (find_answer returns None) gives
\* AnswerNotFound, an answer it reports present but invalid (Some(None)) gives
\* WrongAnswer.
C6_AnswerExtraction ==
    \A h \in Handlers :
        (Checked(h) /\ find_token(req[h]).k = "Some") =>
            /\ find_answer(req[h]).k = "None" => depot[h] = "AnswerNotFound"
            /\ find_answer(req[h]).k = "SomeNone" => depot[h] = "WrongAnswer"

\* C7: for a request that is not skipped and carries neither token nor answer
\* the outcome is TokenNotFound; and whenever the token extraction fails, the
\* outcome is decided without the answer being looked for.
C7_TokenFirst ==
    \A h \in Handlers :
        Checked(h) =>
            /\ (find_token(req[h]).k = "None" /\ find_answer(req[h]).k = "None")
                    => depot[h] = "TokenNotFound"
            /\ find_token(req[h]).k # "Some"
                    => \A i \in 1..Len(calls[h]) : calls[h][i] # "find_answer"

\* C8: a step that handles a request for which the skip predicate is true
\* records Skipped, ends the call, calls no finder and no storage operation,
\* and leaves every stored record as it was.
C8_SkipTouchesNothing ==
    [][\A h \in Handlers :
        (req'[h].skip /\ <<hpc[h], req[h], depot[h], calls[h]>>
                            # <<hpc'[h], req'[h], depot'[h], calls'[h]>>)
        => /\ hpc'[h] = "done"
           /\ depot'[h] = "Skipped"
           /\ calls'[h] = <<"skipper">>
           /\ lookup'[h].k = "NotCalled"
           /\ storage' = storage]_vars

\* a skipped request that carried a live token and its correct answer
C8_Witness ==
    /\ hpc["h1"] = "done"
    /\ req["h1"].skip
    /\ depot["h1"] = "Skipped"
    /\ req["h1"].token.h = "text"
    /\ req["h1"].answer.h = "text"
    /\ req["h1"].token.v \in DOMAIN storage
    /\ storage[req["h1"].token.v].answer = req["h1"].answer.v

\* C9: a call touches the storage only after both the token and the answer
\* were extracted: a call that made a storage call carries both values, and a
\* call that ended with TokenNotFound or AnswerNotFound, or whose token or
\* answer was absent or invalid, made none.
C9_StorageAfterExtraction ==
    \A h \in Handlers :
        /\ (storage_calls(h) # {} \/ lookup[h].k # "NotCalled")
            => (~req[h].skip /\ req[h].token.h = "text" /\ req[h].answer.h = "text")
        /\ (hpc[h] = "done" /\ depot[h] \in {"TokenNotFound", "AnswerNotFound"})
            => (storage_calls(h) = {} /\ lookup[h].k = "NotCalled")

\* a call that ended on a missing answer although its token was live
C9_Witness ==
    /\ Checked("h1")
    /\ req["h1"].token.h = "text"
    /\ req["h1"].token.v \in DOMAIN storage
    /\ req["h1"].answer.h # "text"
    /\ depot["h1"] \in {"AnswerNotFound", "WrongAnswer"}
    /\ storage_calls("h1") = {}

\* C10: a call whose token has no record when the storage is asked, and whose
\* lookup does not fail, ends with WrongToken, whatever happened to the token
\* before (never issued, consumed by a Passed, removed by a sweep).
C10_NoRecordIsWrongToken ==
    [][\A h \in Handlers :
        (/\ hpc[h] = "get_answer"
         /\ hpc'[h] # "get_answer"
         /\ req[h].token.v \notin DOMAIN storage
         /\ lookup'[h].k # "Err")
        => (hpc'[h] = "done" /\ depot'[h] = "WrongToken")]_vars

\* a call met a token that an earlier Passed call had consumed, while the
\* cleaner task was between two sweeps
C10_Witness ==
    /\ Looked("h1")
    /\ {"consumed", "asleep"} \subseteq history["h1"]
    /\ lookup["h1"].k = "None"
    /\ depot["h1"] = "WrongToken"

\* the submitted answer of h is not the stored one under the configured policy:
\* another string, or the same string up to ASCII case when case is ignored
Wrong(h) ==
    LET stored == storage[token_of(h)].answer
    IN  IF case_sensitive THEN answer_of(h) # stored
        ELSE AsciiUpper(answer_of(h)) # AsciiUpper(stored)

\* C11: a call that submits a wrong answer for a live token ends with
\* WrongAnswer and leaves the storage as it was, and a call that submits the
\* right answer for a live token goes on to delete the token and ends with
\* Passed, however many wrong attempts came before.
C11_MismatchKeepsRecord ==
    [][\A h \in Handlers :
        /\ (/\ hpc[h] = "get_answer"
            /\ hpc'[h] # "get_answer"
            /\ token_of(h) \in DOMAIN storage
            /\ lookup'[h].k = "Some")
           => IF Wrong(h)
              THEN hpc'[h] = "done" /\ depot'[h] = "WrongAnswer" /\ storage' = storage
              ELSE hpc'[h] = "clear_by_token"
        /\ (hpc[h] = "clear_by_token" /\ hpc'[h] # "clear_by_token")
           => depot'[h] = "Passed"]_vars

\* the answer the storage returned to h matches the submitted one under the
\* configured policy
Matches(h) ==
    /\ lookup[h].k = "Some"
    /\ IF case_sensitive THEN lookup[h].v = answer_of(h)
       ELSE AsciiUpper(lookup[h].v) = AsciiUpper(answer_of(h))

\* C12: a call whose stored answer matched the submitted one ends with Passed
\* whether or not its clear_by_token succeeded, and StorageError is the outcome
\* of a failed get_answer only, never of a failed deletion.
C12_PassedThoughDeleteFails ==
    \A h \in Handlers :
        Checked(h) =>
            /\ Matches(h) => depot[h] = "Passed"
            /\ depot[h] = "StorageError" => lookup[h].k = "Err"

\* a call ended with Passed although the deletion failed: the record is still
\* in the cache
C12_Witness ==
    /\ Checked("h1")
    /\ Matches("h1")
    /\ backend = "cacache"
    /\ calls["h1"][Len(calls["h1"])] = "clear_by_token"
    /\ token_of("h1") \in DOMAIN storage
    /\ depot["h1"] = "Passed"

\* C13: a call whose get_answer fails, be it an I/O error of the read or stored
\* bytes that are not UTF-8, ends with StorageError, attempts no deletion,
\* leaves the storage as it was and does not take its task down.
C13_FailedReadIsStorageError ==
    [][\A h \in Handlers :
        (/\ hpc[h] = "get_answer"
         /\ hpc'[h] # "get_answer"
         /\ lookup'[h].k \notin {"Some", "None"})
        => /\ hpc'[h] = "done"
           /\ depot'[h] = "StorageError"
           /\ storage' = storage]_vars

\* C14: as long as a token has a record, get_answer returns for it the answer
\* that store_answer was given, byte for byte, on both backends and under both
\* case policies.
C14_RoundTrip ==
    \A t \in DOMAIN storage : get_answer(t, TRUE) = SomeSome(given[t].answer)

\* an answer with an upper-case letter came back from the cache as it was
\* given, with the case-insensitive policy configured
C14_Witness ==
    /\ ~case_sensitive
    /\ backend = "cacache"
    /\ \E t \in DOMAIN storage :
        /\ given[t].answer = Hello
        /\ get_answer(t, TRUE) = SomeSome(Hello)

\* tokens that store_answer has returned
Issued == 1..(next_token - 1)

\* C15: a token that was issued and has no record any more (deleted by a
\* Passed call's clear_by_token or by clear_expired) has no record after any
\* further step either: get_answer returns None for it from then on.
C15_DeletedStaysDeleted ==
    [][\A t \in Issued :
        t \notin DOMAIN storage => get_answer(t, TRUE)' = None]_vars

\* the first token was deleted, by a sweep or by a Passed call, and a captcha
\* stored after the last sweep began is live while the first token still
\* resolves to nothing
C15_Witness ==
    /\ 1 \in swept \cup consumed
    /\ get_answer(1, TRUE) = None
    /\ 2 \in DOMAIN storage
    /\ 1 \in DOMAIN sweep.seen
    /\ 2 \notin DOMAIN sweep.seen

\* C17 as stated: with the cleaner task running (it has swept and sleeps until
\* its next sweep), a call that starts when its token's record is older than
\* expired_after does not end with Passed.
C17_NoPassAfterMaxAge ==
    \A h \in Handlers :
        (Looked(h) /\ {"overdue", "asleep"} \subseteq history[h]) => depot[h] # "Passed"

\* C17 amended: a call that starts after a clear_expired call has removed its
\* token's record does not end with Passed; until that removal the record of
\* an over-age captcha is still there and the call can pass.
C17_NoPassOnceSwept ==
    \A h \in Handlers :
        (Looked(h) /\ "swept" \in history[h]) => depot[h] # "Passed"

\* a call with the right answer that started after the sweep had removed its
\* token was refused
C17_Witness ==
    /\ Looked("h1")
    /\ "swept" \in history["h1"]
    /\ req["h1"].answer.v \in StoredAnswers
    /\ lookup["h1"].k = "None"
    /\ depot["h1"] = "WrongToken"

\* clear_expired has returned and the cleaner task sleeps
Swept == spc = "sleep"

\* the age, at the clock reading of the sweep, of a record the sweep found
AgeAtSweep(t) == sweep.at - sweep.seen[t]

\* C18: after clear_expired(0) has returned without a failed removal, no record
\* that was in the storage when it was called is left, the records stored at
\* the very clock reading of the sweep included: get_answer returns None.
C18_ZeroMaxAgeRemoves ==
    (Swept /\ captcha_expired_after = 0 /\ sweep.failed = {})
    => \A t \in DOMAIN sweep.seen : get_answer(t, TRUE) = None

\* clear_expired(0) met a record stored at the same clock reading and took it
\* away
C18_Witness ==
    /\ Swept
    /\ captcha_expired_after = 0
    /\ \E t \in DOMAIN sweep.seen :
        /\ AgeAtSweep(t) = 0
        /\ get_answer(t, TRUE) = None

C20_YoungRecordsKept ==
    (Swept /\ sweep.at \div TicksPerSec >= as_secs(captcha_expired_after))
    => \A t \in DOMAIN sweep.seen :
            AgeAtSweep(t) < captcha_expired_after
            => get_answer(t, TRUE) # None

C22_MemoryNeverFails ==
    backend = "memory" => spc # "panicked"

\* C23: the cleaner task calls clear_expired for the first time only when one
\* clean interval has passed since the Captcha was built.
C23_SleepBeforeFirstSweep ==
    sweep.at # 0 => sweep.at >= StartClock + clean_interval

\* C24: in every state a further sweep is pending: the cleaner task is about to
\* call clear_expired, is inside the call, or sleeps with a time to wake up.
C24_SweepAlwaysPending ==
    \/ spc \in {"sweep", "retain"}
    \/ spc = "sleep" /\ swake > 0

\* C25: liveness of expiry -- with a clock that advances and a cleaner task
\* that is scheduled fairly, a record that nobody verifies does not stay for
\* ever: once it is older than the maximal age it is eventually removed (in
\* memory, and in the cache when removals succeed in the end)
C25_ExpiredEventuallyRemoved ==
    \A t \in 1..MaxIssued :
        (t \in DOMAIN storage /\ clock - given[t].at > captcha_expired_after)
            ~> (t \notin DOMAIN storage)

\* the expired keys the running (or last) clear_expired of the cache listed
Listed ==
    {t \in DOMAIN sweep.seen : sweep.at >= sweep.seen[t] + captcha_expired_after}

\* C26: in the cache's clear_expired a removal that fails does not abort the
\* sweep -- every expired key of the listing is either still to be visited or
\* has had its removal attempted, and when the call returns every one of them
\* was attempted and the call returned Ok
C26_FailedRemovalDoesNotAbort ==
    backend = "cacache" =>
        /\ spc = "retain" => sweep.tried \cup spending = Listed
        /\ spc = "sleep" =>
            /\ sweep.tried = Listed
            /\ sweep.failed \subseteq sweep.tried
            /\ sweep.result = "Ok"

\* a sweep has returned in which two removals failed: the second was attempted
\* after the first had failed
C26_Witness ==
    /\ backend = "cacache"
    /\ spc = "sleep"
    /\ Cardinality(sweep.failed) >= 2
    /\ sweep.result = "Ok"

\* the task is inside an operation that changes the map
Writing(t) ==
    /\ mtask[t].pc = "holding"
    /\ mtask[t].op \in {"store_answer", "clear_expired", "clear_by_token"}

\* C27: the in-memory backend's operations exclude each other -- while a
\* task is in store_answer, clear_expired or clear_by_token with the map's
\* lock, no other task is in any operation with it (so a lookup, which touches
\* the map only with the lock, never sees one of them half done); lookups may
\* share the lock among themselves
C27_MapLockExclusive ==
    \A t \in MapTasks :
        Writing(t) => \A u \in MapTasks \ {t} : mtask[u].pc # "holding"

\* a task changes the map while a lookup and another change wait for the lock
C27_Witness ==
    \E t, u, v \in MapTasks :
        /\ Writing(t)
        /\ mtask[u].pc = "waiting" /\ mtask[u].op = "get_answer"
        /\ mtask[v].pc = "waiting" /\ mtask[v].op = "clear_by_token"
        /\ storage # <<>>

\* two lookups are in the map at the same time
C27_ReadersShare ==
    \E t, u \in MapTasks :
        /\ t # u
        /\ mtask[t].pc = "holding" /\ mtask[t].op = "get_answer"
        /\ mtask[u].pc = "holding" /\ mtask[u].op = "get_answer"

\* C28: no operation blocks for ever -- with the tasks scheduled fairly, every
\* operation a task has started on the in-memory backend gets the lock, does
\* its work and returns
C28_OperationsComplete ==
    \A t \in MapTasks : (mtask[t].pc # "idle") ~> (mtask[t].pc = "idle")

\* every operation that has come to wait for the lock gets it and returns
C28_WaitersServed ==
    \A t \in MapTasks : (mtask[t].pc = "waiting") ~> (mtask[t].pc = "idle")

\* the record store_answer writes for what it was given at a tick
written(g) ==
    [time |-> IF backend = "memory" THEN g.at \div TicksPerSec ELSE g.at,
     answer |-> g.answer]

\* C29: records are immutable -- a record that is in the storage before and
\* after a step is the same after it, whatever the step (a request, a lookup,
\* a sweep, a deletion, a later store_answer), and a record that appears holds
\* the answer and the time of the store_answer call that made it
C29_RecordsImmutable ==
    [][/\ \A t \in DOMAIN storage \cap DOMAIN storage' : storage'[t] = storage[t]
       /\ \A t \in DOMAIN storage' \ DOMAIN storage :
            /\ t \in DOMAIN given'
            /\ storage'[t] = written(given'[t])]_vars

\* a record has been looked up by a request that failed on it, has seen a
\* later store_answer, a tick of the clock and a sweep, and is still there
C29_Witness ==
    /\ 1 \in DOMAIN storage
    /\ storage[1] = written(given[1])
    /\ next_token > 2
    /\ clock > given[1].at
    /\ spc = "sleep"
    /\ hpc["h1"] = "done"
    /\ lookup["h1"].k = "Some"
    /\ depot["h1"] = "WrongAnswer"

\* every record but the one of `tok` is after the step what it was before
Untouched(tok) ==
    \A t \in DOMAIN storage \ {tok} : t \in DOMAIN storage' /\ storage'[t] = storage[t]

\* C30: tokens are independent -- a store_answer and the storage calls of a
\* verification (get_answer, clear_by_token) leave the record of every token
\* other than their own as it was, and a get_answer for a token that has its
\* record returns the answer stored for that token
C30_TokensIndependent ==
    [][/\ next_token' # next_token => Untouched(next_token)
       /\ \A h \in Handlers :
            hpc'[h] # hpc[h] =>
                /\ Untouched(IF hpc[h] \in {"get_answer", "clear_by_token"}
                             THEN token_of(h) ELSE 0)
                /\ ( /\ hpc[h] = "get_answer"
                     /\ token_of(h) \in DOMAIN storage
                     /\ lookup'[h].k # "Err" )
                   => lookup'[h] = SomeSome(given[token_of(h)].answer)]_vars

\* a request has passed and deleted its token while another token, there
\* since before, is still stored with its answer
C30_Witness ==
    /\ sweep.at # 0
    /\ {1, 2} \subseteq DOMAIN sweep.seen
    /\ 1 \notin DOMAIN storage
    /\ 1 \in consumed
    /\ 1 \notin swept
    /\ depot["h1"] = "Passed"
    /\ 2 \in DOMAIN storage
    /\ storage[2] = written(given[2])

\* C31: the two backends keep one contract -- given the same calls at the
\* same clock readings, without I/O failures, the same tokens are live in both
\* and a get_answer returns the same from both, whatever the maximal age
C31_BackendsAgree ==
    /\ DOMAIN twin.memory = DOMAIN twin.cacache
    /\ twin_got.memory = twin_got.cacache

\* the setting the caller asked for, or the default
Settled(f, default) == IF asked[f].set THEN asked[f].v ELSE default

\* C32: the builder starts with a maximal age of 300 s, a sweep interval of
\* 60 s, no skipper and case_sensitive = true; each setter changes its own
\* setting only; and the cleaner task of the built Captcha computes its sweeps
\* from the builder's maximal age and sleeps the builder's interval
C32_BuilderSettings ==
    /\ builder.captcha_expired_after =
            Settled("captcha_expired_after", 300 * TicksPerSec)
    /\ builder.clean_interval = Settled("clean_interval", 60 * TicksPerSec)
    /\ builder.case_sensitive = Settled("case_sensitive", TRUE)
    /\ builder.skipper = Settled("skipper", "none_skipper")
    /\ spc # "unbuilt" =>
        /\ captcha_expired_after = builder.captcha_expired_after
        /\ clean_interval = builder.clean_interval
        /\ case_sensitive = builder.case_sensitive
    /\ (spc = "retain" /\ backend = "memory") =>
        sthreshold = ((sweep.at \div TicksPerSec)
                        - (builder.captcha_expired_after \div TicksPerSec)) % TimeModulus
    /\ (spc = "retain" /\ backend = "cacache") =>
        spending \cup sweep.tried =
            {t \in DOMAIN sweep.seen :
                sweep.at >= sweep.seen[t] + builder.captcha_expired_after}
    /\ spc = "sleep" =>
        /\ swake >= sweep.at + builder.clean_interval
        /\ swake <= clock + builder.clean_interval

\* a Captcha built after expired_after and case_insensitive were called, with
\* the interval left at its default, has swept and sleeps
C32_Witness ==
    /\ spc = "sleep"
    /\ asked.captcha_expired_after.set
    /\ asked.case_sensitive.set
    /\ ~asked.clean_interval.set
    /\ ~asked.skipper.set
    /\ swake = sweep.at + 60 * TicksPerSec
    /\ swept # {}

\* C33: issuing a challenge -- after CaptchaGenerator::new_captcha, if the
\* generator gave an answer and the store went through, exactly one record is
\* new, it holds that answer and its token is returned with the image; if the
\* generator failed the call returned an error and stored nothing; if the store
\* failed the call returned the storage error
C33_IssueContract ==
    issue.fn = "CaptchaGenerator::new_captcha" =>
        /\ issue.gen = None =>
            /\ issue.result.k = "Err"
            /\ DOMAIN storage = issue.before
        /\ (issue.gen # None /\ issue.result.k = "Ok") =>
            /\ issue.result.v.k = "Some"
            /\ DOMAIN storage \ issue.before = {issue.result.v.v.token}
            /\ storage[issue.result.v.v.token].answer = issue.gen.v.answer
            /\ issue.result.v.v.image = issue.gen.v.image
        /\ (issue.gen # None /\ issue.result.k = "Err") =>
            /\ issue.result.e = "storage"
            /\ DOMAIN storage = issue.before

\* the request carries a value under the name (a form only if its body parses)
Present(w, kind, name) ==
    /\ w.fields[name].h # "missing"
    /\ kind = "form" => w.form_ok

\* what the claim puts under a name: nothing when it is absent, the value when
\* it is present and readable
Expected(got, w, kind, name) ==
    /\ got = None <=> ~Present(w, kind, name)
    /\ (Present(w, kind, name) /\ w.fields[name].h = "text")
            => got = SomeSome(w.fields[name].v)

\* C34: a finder returns None for the token exactly when the request has
\* nothing under the token name it was configured with, and Some(Some(value))
\* with the request's value when there is a readable one -- whatever is or is
\* not sent under the answer name or any other name; and the same for the answer
C34_FinderContract ==
    finding.token.k # "NotCalled" =>
        /\ Expected(finding.token, finding.request, finding.finder.kind, finding.finder.token)
        /\ Expected(finding.answer, finding.request, finding.finder.kind, finding.finder.answer)

\* a finder with names of its own met a request that has both values under
\* the default names and only an answer under its own: no token found
C34_Witness ==
    LET f == finding.finder
        w == finding.request
        d == default_finder(f.kind)
    IN  /\ finding.token = None
        /\ finding.answer.k = "Some"
        /\ f.token # d.token
        /\ w.fields[d.token].h = "text"
        /\ w.fields[d.answer].h = "text"
        /\ w.fields[f.token].h = "missing"

\* C35: a call ends with Passed only if, when it asked the storage, the
\* submitted token was an issued one with a record and the stored answer
\* matched the submitted one under the configured case policy; Passed is
\* recorded by no other step than the one that follows such a lookup.
C35_PassedIsSound ==
    [][\A h \in Handlers :
        /\ (depot'[h] = "Passed" /\ depot[h] # "Passed")
           => (hpc[h] = "clear_by_token" /\ lookup[h].k = "Some")
        /\ (hpc[h] = "get_answer" /\ hpc'[h] = "clear_by_token")
           => /\ token_of(h) \in Issued
              /\ token_of(h) \in DOMAIN storage
              /\ lookup'[h] = SomeSome(storage[token_of(h)].answer)
              /\ ~Wrong(h)]_vars

\* a handle call of h returns with this step
Returns(h) == hpc'[h] = "done" /\ (hpc[h] # "done" \/ req'[h] # req[h] \/ calls'[h] # calls[h])

\* C36: every path of handle that returns records one outcome in the depot, in
\* the step that returns and in no earlier one, and the outcome is one of the
\* seven CaptchaState values: a call that has not returned has recorded nothing,
\* and what a returned call left is the outcome of the stage it returned from.
C36_OneOutcomePerCall ==
    [][\A h \in Handlers :
        /\ hpc'[h] = "done" => depot'[h] \in CaptchaState
        /\ hpc'[h] \in {"get_answer", "clear_by_token", "panicked"} => depot'[h] = "Unset"
        /\ depot'[h] # depot[h] => (Returns(h) \/ depot'[h] = "Unset")
        /\ Returns(h) =>
            LET last == calls'[h][Len(calls'[h])]
            IN  /\ last = "skipper" <=> depot'[h] = "Skipped"
                /\ last = "find_token" <=> depot'[h] \in {"TokenNotFound", "WrongToken"} /\ lookup'[h].k = "NotCalled"
                /\ last = "find_answer" <=> depot'[h] \in {"AnswerNotFound", "WrongAnswer"} /\ lookup'[h].k = "NotCalled"
                /\ last = "get_answer" <=> depot'[h] \in {"WrongToken", "WrongAnswer", "StorageError"} /\ lookup'[h].k # "NotCalled"
                /\ last = "clear_by_token" <=> depot'[h] = "Passed"]_vars

\* h1 returned from a second call with the token its first call had passed
\* with: what it left is the outcome of the second call, not the earlier Passed
C36_Witness ==
    /\ hpc["h1"] = "done"
    /\ token_of("h1") \in consumed
    /\ "consumed" \in history["h1"]
    /\ calls["h1"][Len(calls["h1"])] = "get_answer"
    /\ depot["h1"] = "WrongToken"

\* C37: get_captcha_state on a depot in which the middleware recorded nothing
\* returns Skipped, as it does on the depot of a request the skipper let
\* through; on a depot with an outcome it returns that outcome, and it returns
\* Passed only from the depot of a call that ended with Passed after its
\* clear_by_token.
C37_DefaultIsSkipped ==
    [][\A h \in Handlers :
        captcha_state'[h] # captcha_state[h] =>
            /\ depot[h] = "Unset" => captcha_state'[h] = "Skipped"
            /\ (hpc[h] = "done" /\ req[h].skip) => captcha_state'[h] = "Skipped"
            /\ depot[h] \in CaptchaState => captcha_state'[h] = depot[h]
            /\ captcha_state'[h] = "Passed"
               => /\ hpc[h] = "done"
                  /\ depot[h] = "Passed"
                  /\ calls[h][Len(calls[h])] = "clear_by_token"]_vars

\* Skipped was read twice: by h2, whose route has no captcha middleware, and by
\* h1 after the skipper let its request through
C37_Witness ==
    /\ hpc["h2"] = "idle"
    /\ depot["h2"] = "Unset"
    /\ captcha_state["h2"] = "Skipped"
    /\ hpc["h1"] = "done"
    /\ req["h1"].skip
    /\ depot["h1"] = "Skipped"
    /\ captcha_state["h1"] = "Skipped"

\* the cleaner task took the record of h's token away after h's get_answer had
\* returned its answer and before h's clear_by_token
Raced(h) ==
    /\ backend = "memory"
    /\ lookup[h].k = "Some"
    /\ token_of(h) \in swept
    /\ token_of(h) \notin DOMAIN storage

\* C38: on the in-memory backend, when the cleaner task removes a token between
\* the get_answer and the clear_by_token of a verify call, the call still ends
\* with Passed, its clear_by_token of the token that is gone returns no error
\* and changes nothing, and the storage has no record of the token afterwards.
C38_SweepVerifyRace ==
    [][\A h \in Handlers :
        /\ (Raced(h) /\ hpc[h] = "clear_by_token" /\ hpc'[h] # "clear_by_token")
           => /\ hpc'[h] = "done"
              /\ depot'[h] = "Passed"
              /\ \A ok \in io_results : clear_result(token_of(h), ok)
              /\ storage' = storage
        /\ (Raced(h) /\ hpc[h] \in {"clear_by_token", "done"} /\ req'[h] = req[h])
           => token_of(h) \notin DOMAIN storage']_vars

\* h1 passed with a token that a sweep of the map had removed while h1 was
\* between its two storage calls
C38_Witness ==
    /\ Raced("h1")
    /\ hpc["h1"] = "done"
    /\ depot["h1"] = "Passed"
    /\ calls["h1"][Len(calls["h1"])] = "clear_by_token"
    /\ token_of("h1") \in consumed

TypeOK ==
    /\ backend \in Backends
    /\ case_sensitive \in BOOLEAN
    /\ next_token \in 1..(MaxTokens + MaxIssued + 1)
    /\ DOMAIN storage \subseteq 1..(next_token - 1)
    /\ DOMAIN given = DOMAIN storage
    /\ \A h \in Handlers : hpc[h] \in {"idle", "get_answer", "clear_by_token", "done", "panicked"}
====
